---- MODULE Spec2Model ----
(***************************************************************************)
(* Model of infoblox_client.connector.Connector: URL and query            *)
(* construction, the five public operations (get_object, create_object,   *)
(* call_func, update_object, delete_object), the mapping of HTTP status   *)
(* and body to results and typed errors, and the cloud-proxy second GET.  *)
(*                                                                         *)
(* Python strings that the code inspects or encodes are sequences of      *)
(* one-character tokens; Str flattens such a sequence into the string     *)
(* that goes on the wire.  A Python dict is the sequence of its           *)
(* <<key, value>> items in insertion order.                               *)
(***************************************************************************)
EXTENDS Integers, Sequences, FiniteSets, TLC

VARIABLES
    wapi_version,        \* self.wapi_version
    wapi_url,            \* self.wapi_url
    cloud_api_enabled,   \* self.cloud_api_enabled
    payload,             \* the mapping object the caller holds and passes
    pc,                  \* position of the operation in progress
    call,                \* arguments of the operation in progress
    query_params,        \* the operation's query_params dict
    aliased,             \* query_params is the caller's payload object
    requests,            \* requests handed to the session by this call
    responses,           \* what the transport answered, in order
    outcome,             \* what the caller of the operation receives
    url_args,            \* arguments of the last _construct_url (SpecURL)
    url_result           \* its result (SpecURL)

vars == <<wapi_version, wapi_url, cloud_api_enabled, payload, pc, call,
          query_params, aliased, requests, responses, outcome,
          url_args, url_result>>

(***************************************************************************)
(* Bounds of the model                                                     *)
(***************************************************************************)
MaxPathLen == 4

(***************************************************************************)
(* Strings and dicts                                                       *)
(***************************************************************************)
Range(s) == {s[i] : i \in DOMAIN s}

RECURSIVE Str(_)
Str(s) == IF s = <<>> THEN "" ELSE Head(s) \o Str(Tail(s))

RECURSIVE JoinStr(_, _)
JoinStr(parts, sep) ==
    IF parts = <<>> THEN ""
    ELSE IF Len(parts) = 1 THEN parts[1]
    ELSE parts[1] \o sep \o JoinStr(Tail(parts), sep)

RECURSIVE JoinTok(_, _)
JoinTok(parts, sep) ==
    IF parts = <<>> THEN <<>>
    ELSE IF Len(parts) = 1 THEN parts[1]
    ELSE parts[1] \o <<sep>> \o JoinTok(Tail(parts), sep)

RECURSIVE split(_, _)
split(s, sep) ==
    IF sep \notin Range(s) THEN <<s>>
    ELSE LET i == CHOOSE k \in DOMAIN s :
                      s[k] = sep /\ \A j \in 1..(k - 1) : s[j] # sep
         IN  <<SubSeq(s, 1, i - 1)>> \o split(SubSeq(s, i + 1, Len(s)), sep)

HasKey(d, k) == \E i \in DOMAIN d : d[i][1] = k

SetItem(d, k, v) ==
    IF HasKey(d, k)
    THEN [i \in DOMAIN d |-> IF d[i][1] = k THEN <<k, v>> ELSE d[i]]
    ELSE Append(d, <<k, v>>)

(***************************************************************************)
(* urllib: quote, urlencode (quote_plus on each key and value), urljoin    *)
(***************************************************************************)
quote(s) == [i \in DOMAIN s |-> IF s[i] = " " THEN "%20" ELSE s[i]]

quote_plus(s) ==
    [i \in DOMAIN s |-> CASE s[i] = " " -> "+"
                          [] s[i] = "," -> "%2C"
                          [] s[i] = "/" -> "%2F"
                          [] OTHER -> s[i]]

urlencode(d) ==
    JoinStr([i \in DOMAIN d |-> d[i][1] \o "=" \o Str(quote_plus(d[i][2]))], "&")

DropEmpty(segs) == SelectSeq(segs, LAMBDA x : x # <<>>)

RECURSIVE Resolve(_, _)
Resolve(segs, acc) ==
    IF segs = <<>> THEN acc
    ELSE LET seg == Head(segs) IN
         IF seg = <<".", ".">>
         THEN Resolve(Tail(segs),
                      IF acc = <<>> THEN acc ELSE SubSeq(acc, 1, Len(acc) - 1))
         ELSE IF seg = <<".">> THEN Resolve(Tail(segs), acc)
         ELSE Resolve(Tail(segs), Append(acc, seg))

\* base_parts: the last item of a base path that does not end in '/' is no
\* directory and is dropped.
base_parts(p) == IF p[Len(p)] # <<>> THEN SubSeq(p, 1, Len(p) - 1) ELSE p

\* segments[1:-1] = filter(None, segments[1:-1])
filter_segments(all) ==
    IF Len(all) <= 2 THEN all
    ELSE <<all[1]>> \o DropEmpty(SubSeq(all, 2, Len(all) - 1)) \o <<all[Len(all)]>>

resolved_path(segments) ==
    IF segments[Len(segments)] \in {<<".">>, <<".", ".">>}
    THEN Append(Resolve(segments, <<>>), <<>>)
    ELSE Resolve(segments, <<>>)

\* urlunparse: '/'.join(resolved_path) or '/', and a path after a netloc
\* starts with '/'.
urlunparse(origin, joined) ==
    IF joined = <<>> THEN Str(origin) \o "/"
    ELSE IF Head(joined) # "/" THEN Str(origin) \o "/" \o Str(joined)
    ELSE Str(origin) \o Str(joined)

\* urljoin(base, url) for a base "scheme://netloc/dir/.../" and a url that has
\* neither scheme nor netloc nor query (quote has encoded ':', '?', '#', ';').
urljoin(base, url) ==
    urlunparse(SubSeq(base, 1, 4),
               JoinTok(resolved_path(filter_segments(
                           base_parts(split(SubSeq(base, 5, Len(base)), "/"))
                           \o split(url, "/"))),
                       "/"))

(***************************************************************************)
(* Connector._construct_url                                                *)
(***************************************************************************)
attrs_queries_unstarred(extattrs) ==
    [i \in DOMAIN extattrs |-> extattrs[i][1] \o "=" \o Str(extattrs[i][2].value)]

attrs_queries(extattrs) ==
    [i \in DOMAIN extattrs |->
        "*" \o extattrs[i][1] \o "=" \o Str(extattrs[i][2].value)]

\* The result: whether ValueError was raised, the URL, and query_params as the
\* call leaves it (the dict is modified in place, before the path is checked).
_construct_url(base, relative_path, qparams, extattrs, force_proxy) ==
    LET qp == IF force_proxy THEN SetItem(qparams, "_proxy_search", <<"GM">>)
              ELSE qparams
        q0 == IF qp # <<>> \/ extattrs # <<>> THEN "?" ELSE ""
        q1 == IF extattrs # <<>>
              THEN q0 \o JoinStr(attrs_queries(extattrs), "&") ELSE q0
        q2 == IF qp # <<>>
              THEN (IF Len(q1) > 1 THEN q1 \o "&" ELSE q1) \o urlencode(qp)
              ELSE q1
    IN  IF relative_path = <<>> \/ relative_path[1] = "/"
        THEN [raised |-> "ValueError", url |-> "", query_params |-> qp]
        ELSE [raised |-> "", url |-> urljoin(base, quote(relative_path)) \o q2,
              query_params |-> qp]

(***************************************************************************)
(* Program constants                                                       *)
(***************************************************************************)
CLOUD_WAPI_MAJOR_VERSION == 2
OK == 200
CREATED == 201
UNAUTHORIZED == 401

(***************************************************************************)
(* JSON values and jsonutils.loads.  A value is its Python type, its       *)
(* length (what truthiness looks at) and, for a dict, its 'text' item.     *)
(* JSON null decodes to None.                                              *)
(***************************************************************************)
Value(type, size, has_text, text) ==
    [type |-> type, size |-> size, has_text |-> has_text, text |-> text]

None == Value("NoneType", 0, FALSE, <<>>)

already_assigned == "is assigned to another network view"

Contents ==
    { "<html>Bad Gateway</html>",
      "null",
      "[]",
      "[{\"_ref\": \"network/ZG5\"}]",
      "{}",
      "{\"Error\": \"AdmConProtoError\"}",
      "{\"text\": \"The member is assigned to another network view 'x'\"}",
      "{\"text\": \"Unknown object type\"}",
      "\"network/ZG5:10.0.0.0/8/default\"" }

\* jsonutils.loads: [raised |-> TRUE] stands for ValueError.
loads(content) ==
    CASE content = "null" ->
           [raised |-> FALSE, value |-> None]
      [] content = "[]" ->
           [raised |-> FALSE, value |-> Value("list", 0, FALSE, <<>>)]
      [] content = "[{\"_ref\": \"network/ZG5\"}]" ->
           [raised |-> FALSE, value |-> Value("list", 1, FALSE, <<>>)]
      [] content = "{}" ->
           [raised |-> FALSE, value |-> Value("dict", 0, FALSE, <<>>)]
      [] content = "{\"Error\": \"AdmConProtoError\"}" ->
           [raised |-> FALSE, value |-> Value("dict", 1, FALSE, <<>>)]
      [] content = "{\"text\": \"The member is assigned to another network view 'x'\"}" ->
           [raised |-> FALSE,
            value |-> Value("dict", 1, TRUE,
                            <<"The member ", already_assigned, " 'x'">>)]
      [] content = "{\"text\": \"Unknown object type\"}" ->
           [raised |-> FALSE,
            value |-> Value("dict", 1, TRUE, <<"Unknown object type">>)]
      [] content = "\"network/ZG5:10.0.0.0/8/default\"" ->
           [raised |-> FALSE, value |-> Value("str", 30, FALSE, <<>>)]
      [] OTHER ->
           [raised |-> TRUE, value |-> None]

\* Python truthiness of a decoded value.
Truthy(v) == v.type # "NoneType" /\ v.size > 0

\* utils.safe_json_load: the decoded value, or None when decoding fails.
safe_json_load(content) ==
    IF loads(content).raised THEN None ELSE loads(content).value

(***************************************************************************)
(* What an operation hands to its caller                                   *)
(***************************************************************************)
Return(v) ==
    [kind |-> "return", exc |-> "", value |-> v, ref |-> <<>>,
     content |-> "", code |-> 0]

Raise(exc, response, ref, content, code) ==
    [kind |-> "raise", exc |-> exc, value |-> response, ref |-> ref,
     content |-> content, code |-> code]

RaiseBare(exc) == Raise(exc, None, <<>>, "", 0)

NoOutcome ==
    [kind |-> "none", exc |-> "", value |-> None, ref |-> <<>>,
     content |-> "", code |-> 0]

(***************************************************************************)
(* The transport (requests.Session): a reply is a response or an exception *)
(***************************************************************************)
TimeoutExceptions == {"ReadTimeout", "ConnectTimeout"}

RequestExceptions ==
    TimeoutExceptions \cup {"ConnectionError", "TooManyRedirects"}

Statuses == {OK, CREATED, UNAUTHORIZED, 400}

Response(status_code, content) ==
    [exc |-> "", status_code |-> status_code, content |-> content]

Replies ==
    {Response(s, c) : s \in Statuses, c \in Contents}
    \cup {[exc |-> e, status_code |-> 0, content |-> ""] : e \in RequestExceptions}

ReraiseSwapped(res) ==
    IF res.kind = "raise" /\ res.exc \in RequestExceptions
    THEN Raise("InfobloxConnectionError", None, <<>>, res.exc, 0)
    ELSE res

\* The decorator: the first matching except clause wins.
reraise_neutron_exception(res) ==
    IF res.kind = "raise" /\ res.exc \in TimeoutExceptions
    THEN Raise("InfobloxTimeoutError", None, <<>>, res.exc, 0)
    ELSE IF res.kind = "raise" /\ res.exc \in RequestExceptions
    THEN Raise("InfobloxConnectionError", None, <<>>, res.exc, 0)
    ELSE res

(***************************************************************************)
(* Connector helpers                                                       *)
(***************************************************************************)
is_cloud_wapi(version) == version.major >= CLOUD_WAPI_MAJOR_VERSION

\* The name of the exception raised, "" when none is.
_validate_obj_type_or_die(obj_type, obj_type_expected) ==
    IF obj_type = <<>> THEN "ValueError"
    ELSE IF obj_type_expected /\ "/" \in Range(obj_type) THEN "ValueError"
    ELSE ""

ValidateAuthorizedForbidden(response) == response.status_code = 403

\* TRUE when InfobloxBadWAPICredential is raised.
_validate_authorized(response) == response.status_code = UNAUTHORIZED

\* A truthy payload IS the returned dict (the same object); return_fields are
\* then written into it.
_build_query_params(payload_arg, return_fields) ==
    LET base == IF payload_arg # <<>> THEN payload_arg ELSE <<>>
    IN  [aliased |-> payload_arg # <<>>,
         dict |-> IF return_fields # <<>>
                  THEN SetItem(base, "_return_fields", JoinTok(return_fields, ","))
                  ELSE base]

\* opts['data'] is set only for a truthy payload.
_get_request_options(data) ==
    [has_data |-> data # <<>>, data |-> data]

ParseReplyLenient(r) ==
    IF loads(r.content).raised THEN Return(None)
    ELSE Return(loads(r.content).value)

_parse_reply(r) ==
    IF loads(r.content).raised
    THEN Raise("InfobloxConnectionError", None, <<>>, r.content, 0)
    ELSE Return(loads(r.content).value)

\* raise exc(response=jsonutils.loads(r.content), ...): the arguments are
\* evaluated first, so a body that does not decode raises ValueError instead.
RaiseWithDecodedBody(exc, ref, r) ==
    IF loads(r.content).raised THEN RaiseBare("ValueError")
    ELSE Raise(exc, loads(r.content).value, ref, r.content, r.status_code)

(***************************************************************************)
(* Interpretation of a reply, per operation (before the decorator)         *)
(***************************************************************************)
\* Connector._get_object after session.get answered r.
_get_object(obj_type, r) ==
    IF r.exc # "" THEN RaiseBare(r.exc)
    ELSE IF _validate_authorized(r) THEN RaiseBare("InfobloxBadWAPICredential")
    ELSE IF r.status_code # OK
    THEN RaiseWithDecodedBody("InfobloxSearchError", obj_type, r)
    ELSE _parse_reply(r)

\* create_object, lines 288-293: the exception a rejected create raises.
\* response.get fails on a truthy value that is no dict (AttributeError);
\* `in` fails on the None that get returns when there is no 'text' (TypeError).
create_exception(response) ==
    IF ~Truthy(response) THEN "InfobloxCannotCreateObject"
    ELSE IF response.type # "dict" THEN "AttributeError"
    ELSE IF ~response.has_text THEN "TypeError"
    ELSE IF already_assigned \in Range(response.text)
    THEN "InfobloxMemberAlreadyAssigned"
    ELSE "InfobloxCannotCreateObject"

create_reply(obj_type, r) ==
    IF r.exc # "" THEN RaiseBare(r.exc)
    ELSE IF _validate_authorized(r) THEN RaiseBare("InfobloxBadWAPICredential")
    ELSE IF r.status_code # CREATED
    THEN LET response == safe_json_load(r.content)
             exception == create_exception(response)
         IN  IF exception \in {"AttributeError", "TypeError"}
             THEN RaiseBare(exception)
             ELSE Raise(exception, response, obj_type, r.content, r.status_code)
    ELSE _parse_reply(r)

call_reply(ref, r) ==
    IF r.exc # "" THEN RaiseBare(r.exc)
    ELSE IF _validate_authorized(r) THEN RaiseBare("InfobloxBadWAPICredential")
    ELSE IF r.status_code \notin {CREATED, OK}
    THEN RaiseWithDecodedBody("InfobloxFuncException", ref, r)
    ELSE _parse_reply(r)

update_reply(ref, r) ==
    IF r.exc # "" THEN RaiseBare(r.exc)
    ELSE IF _validate_authorized(r) THEN RaiseBare("InfobloxBadWAPICredential")
    ELSE IF r.status_code # OK
    THEN RaiseWithDecodedBody("InfobloxCannotUpdateObject", ref, r)
    ELSE _parse_reply(r)

delete_reply(ref, r) ==
    IF r.exc # "" THEN RaiseBare(r.exc)
    ELSE IF _validate_authorized(r) THEN RaiseBare("InfobloxBadWAPICredential")
    ELSE IF r.status_code # OK
    THEN RaiseWithDecodedBody("InfobloxCannotDeleteObject", ref, r)
    ELSE _parse_reply(r)

(***************************************************************************)
(* get_object's proxy decisions                                            *)
(***************************************************************************)
\* line 228
proxy_flag(cloud, force_proxy) == cloud /\ force_proxy

SecondGetAlways(cloud, force_proxy) == cloud

\* line 237
second_get(cloud, force_proxy) == cloud /\ ~force_proxy

ResultAsIs(obj) == obj

\* lines 233-234 and 241-244: a falsy object is returned as None.
get_result(obj) == IF Truthy(obj) THEN obj ELSE None

(***************************************************************************)
(* Arguments the callers use                                               *)
(***************************************************************************)
Chars == {"a", "/", ".", " "}

RECURSIVE SeqsUpTo(_, _)
SeqsUpTo(S, n) ==
    IF n = 0 THEN {<<>>}
    ELSE LET r == SeqsUpTo(S, n - 1)
         IN  r \cup {Append(x, c) : x \in r, c \in S}

Paths == SeqsUpTo(Chars, MaxPathLen)

ObjTypes == {<<>>, <<"/", "a">>, <<"a">>, <<"a", "/", "a">>}

ReturnFields == {<<>>, << <<"name">>, <<"comment">> >>}

ExtAttrs ==
    { <<>>,
      << <<"Subnet ID", [value |-> <<"x">>]>> >>,
      << <<"Subnet ID", [value |-> <<"x">>]>>,
         <<"Cloud API Owned", [value |-> <<"True">>]>> >> }

GetExtAttrs == {e \in ExtAttrs : Len(e) <= 1}

QueryParams ==
    { <<>>,
      << <<"network_view", <<"default">>>> >>,
      << <<"network", <<"10", ".", "0", "/", "8">>>>,
         <<"_return_fields", <<"extattrs", ",", "comment">>>> >> }

Versions == { [text |-> "1.4", major |-> 1, minor |-> 4],
              [text |-> "2.5", major |-> 2, minor |-> 5] }

Payloads == { <<>>, << <<"network_view", <<"default">>>> >> }

NoCall ==
    [op |-> "", obj_type |-> <<>>, payload_in |-> <<>>, return_fields |-> <<>>,
     extattrs |-> <<>>, force_proxy |-> FALSE, func_name |-> ""]

Request(method, url, params, opts) ==
    [method |-> method, url |-> url, params |-> params, opts |-> opts]

NoArgs ==
    [relative_path |-> <<>>, query_params |-> <<>>, extattrs |-> <<>>,
     force_proxy |-> FALSE]

NotBuilt == [raised |-> "", url |-> "", query_params |-> <<>>]

(***************************************************************************)
(* Init: the Connector after __init__, and the caller's payload object     *)
(***************************************************************************)
Init ==
    /\ wapi_version \in Versions
    /\ wapi_url = <<"https:", "/", "/", "nios.example.com", "/", "wapi", "/",
                    "v" \o wapi_version.text, "/">>
    /\ cloud_api_enabled = is_cloud_wapi(wapi_version)
    /\ payload \in Payloads
    /\ pc = "idle"
    /\ call = NoCall
    /\ query_params = <<>>
    /\ aliased = FALSE
    /\ requests = <<>>
    /\ responses = <<>>
    /\ outcome = NoOutcome
    /\ url_args = NoArgs
    /\ url_result = NotBuilt

config == <<wapi_version, wapi_url, cloud_api_enabled>>
url_vars == <<url_args, url_result>>

Idle == pc = "idle"

\* The operation ends: the caller receives res through the decorator.
Finish(res) ==
    /\ outcome' = reraise_neutron_exception(res)
    /\ pc' = "done"

Begin(op, obj_type, payload_arg, return_fields, extattrs, force_proxy, func) ==
    /\ call' = [op |-> op, obj_type |-> obj_type, payload_in |-> payload_arg,
                return_fields |-> return_fields, extattrs |-> extattrs,
                force_proxy |-> force_proxy, func_name |-> func]
    /\ responses' = <<>>

(***************************************************************************)
(* get_object                                                              *)
(***************************************************************************)
get_object(obj_type, use_payload, return_fields, extattrs, force_proxy) ==
    LET payload_arg == IF use_payload THEN payload ELSE <<>>
        b   == _build_query_params(payload_arg, return_fields)
        url == _construct_url(wapi_url, obj_type, b.dict, extattrs,
                              proxy_flag(cloud_api_enabled, force_proxy))
    IN  /\ Idle
        /\ Begin("get", obj_type, payload_arg, return_fields, extattrs,
                 force_proxy, "")
        /\ IF _validate_obj_type_or_die(obj_type, FALSE) # ""
           THEN /\ Finish(RaiseBare("ValueError"))
                /\ requests' = <<>>
                /\ query_params' = <<>>
                /\ aliased' = FALSE
                /\ UNCHANGED payload
           ELSE /\ query_params' = url.query_params
                /\ aliased' = b.aliased
                /\ payload' = IF b.aliased THEN url.query_params ELSE payload
                /\ IF url.raised # ""
                   THEN /\ Finish(RaiseBare(url.raised))
                        /\ requests' = <<>>
                   ELSE /\ requests' = <<Request("GET", url.url, url.query_params,
                                                 _get_request_options(<<>>))>>
                        /\ pc' = "get_1"
                        /\ outcome' = NoOutcome
        /\ UNCHANGED <<config, url_vars>>

\* The first session.get answers; lines 232-244.
get_object_first(r) ==
    LET res == _get_object(call.obj_type, r)
        url == _construct_url(wapi_url, call.obj_type, query_params,
                              call.extattrs, TRUE)
    IN  /\ pc = "get_1"
        /\ responses' = Append(responses, r)
        /\ IF res.kind = "raise"
           THEN /\ Finish(res)
                /\ UNCHANGED <<payload, query_params, requests>>
           ELSE IF Truthy(res.value)
           THEN /\ Finish(Return(res.value))
                /\ UNCHANGED <<payload, query_params, requests>>
           ELSE IF second_get(cloud_api_enabled, call.force_proxy)
           THEN /\ query_params' = url.query_params
                /\ payload' = IF aliased THEN url.query_params ELSE payload
                /\ requests' = Append(requests,
                                      Request("GET", url.url, url.query_params,
                                              _get_request_options(<<>>)))
                /\ pc' = "get_2"
                /\ UNCHANGED outcome
           ELSE /\ Finish(Return(get_result(res.value)))
                /\ UNCHANGED <<payload, query_params, requests>>
        /\ UNCHANGED <<config, url_vars, call, aliased>>

\* The second session.get answers; lines 240-244.
get_object_second(r) ==
    LET res == _get_object(call.obj_type, r)
    IN  /\ pc = "get_2"
        /\ responses' = Append(responses, r)
        /\ IF res.kind = "raise"
           THEN Finish(res)
           ELSE Finish(Return(get_result(res.value)))
        /\ UNCHANGED <<config, url_vars, call, aliased, payload, query_params,
                       requests>>

(***************************************************************************)
(* create_object, call_func, update_object, delete_object                  *)
(***************************************************************************)
\* Builds the URL and hands the request to the session, or raises ValueError.
Send(method, relative_path, qparams, data, wait) ==
    LET url == _construct_url(wapi_url, relative_path, qparams, <<>>, FALSE)
    IN  /\ query_params' = url.query_params
        /\ aliased' = FALSE
        /\ IF url.raised # ""
           THEN /\ Finish(RaiseBare(url.raised))
                /\ requests' = <<>>
           ELSE /\ requests' = <<Request(method, url.url, url.query_params,
                                         _get_request_options(data))>>
                /\ pc' = wait
                /\ outcome' = NoOutcome

create_object(obj_type, use_payload, return_fields) ==
    LET payload_arg == IF use_payload THEN payload ELSE <<>>
    IN  /\ Idle
        /\ Begin("create", obj_type, payload_arg, return_fields, <<>>, FALSE, "")
        /\ IF _validate_obj_type_or_die(obj_type, TRUE) # ""
           THEN /\ Finish(RaiseBare("ValueError"))
                /\ requests' = <<>>
                /\ query_params' = <<>>
                /\ aliased' = FALSE
           ELSE Send("POST", obj_type,
                     _build_query_params(<<>>, return_fields).dict,
                     payload_arg, "create")
        /\ UNCHANGED <<config, url_vars, payload>>

call_func(func_name, ref, use_payload, return_fields) ==
    LET payload_arg == IF use_payload THEN payload ELSE <<>>
    IN  /\ Idle
        /\ Begin("call", ref, payload_arg, return_fields, <<>>, FALSE, func_name)
        /\ Send("POST", ref,
                SetItem(_build_query_params(<<>>, return_fields).dict,
                        "_function", <<func_name>>),
                payload_arg, "call")
        /\ UNCHANGED <<config, url_vars, payload>>

update_object(ref, use_payload, return_fields) ==
    LET payload_arg == IF use_payload THEN payload ELSE <<>>
    IN  /\ Idle
        /\ Begin("update", ref, payload_arg, return_fields, <<>>, FALSE, "")
        /\ Send("PUT", ref, _build_query_params(<<>>, return_fields).dict,
                payload_arg, "update")
        /\ UNCHANGED <<config, url_vars, payload>>

delete_object(ref) ==
    /\ Idle
    /\ Begin("delete", ref, <<>>, <<>>, <<>>, FALSE, "")
    /\ Send("DELETE", ref, <<>>, <<>>, "delete")
    /\ UNCHANGED <<config, url_vars, payload>>

\* The session answers the single request of create, call, update or delete.
Answer(wait, res, r) ==
    /\ pc = wait
    /\ responses' = Append(responses, r)
    /\ Finish(res)
    /\ UNCHANGED <<config, url_vars, call, aliased, payload, query_params,
                   requests>>

create_object_reply(r) == Answer("create", create_reply(call.obj_type, r), r)
call_func_reply(r)     == Answer("call", call_reply(call.obj_type, r), r)
update_object_reply(r) == Answer("update", update_reply(call.obj_type, r), r)
delete_object_reply(r) == Answer("delete", delete_reply(call.obj_type, r), r)

\* The caller has taken the outcome; the Connector keeps nothing of the call.
Returned ==
    /\ pc = "done"
    /\ pc' = "idle"
    /\ call' = NoCall
    /\ query_params' = <<>>
    /\ aliased' = FALSE
    /\ requests' = <<>>
    /\ responses' = <<>>
    /\ outcome' = NoOutcome
    /\ UNCHANGED <<config, url_vars, payload>>

Next ==
    \/ \E t \in ObjTypes, u \in BOOLEAN, f \in ReturnFields, e \in GetExtAttrs,
          p \in BOOLEAN : get_object(t, u, f, e, p)
    \/ \E r \in Replies : get_object_first(r)
    \/ \E r \in Replies : get_object_second(r)
    \/ \E t \in ObjTypes, u \in BOOLEAN, f \in ReturnFields :
          create_object(t, u, f)
    \/ \E r \in Replies : create_object_reply(r)
    \/ \E t \in ObjTypes, u \in BOOLEAN, f \in ReturnFields :
          call_func("next_available_ip", t, u, f)
    \/ \E r \in Replies : call_func_reply(r)
    \/ \E t \in ObjTypes, u \in BOOLEAN, f \in ReturnFields :
          update_object(t, u, f)
    \/ \E r \in Replies : update_object_reply(r)
    \/ \E t \in ObjTypes : delete_object(t)
    \/ \E r \in Replies : delete_object_reply(r)
    \/ Returned

Spec == Init /\ [][Next]_vars

(***************************************************************************)
(* _construct_url on its own, over all short paths                         *)
(***************************************************************************)
InitURL ==
    /\ wapi_version \in Versions
    /\ wapi_url = <<"https:", "/", "/", "nios.example.com", "/", "wapi", "/",
                    "v" \o wapi_version.text, "/">>
    /\ cloud_api_enabled = is_cloud_wapi(wapi_version)
    /\ payload = <<>>
    /\ pc = "idle"
    /\ call = NoCall
    /\ query_params = <<>>
    /\ aliased = FALSE
    /\ requests = <<>>
    /\ responses = <<>>
    /\ outcome = NoOutcome
    /\ url_args \in [relative_path : Paths, query_params : QueryParams,
                      extattrs : ExtAttrs, force_proxy : BOOLEAN]
    /\ url_result = NotBuilt

BuildURL ==
    /\ url_result = NotBuilt
    /\ url_result' = _construct_url(wapi_url, url_args.relative_path,
                                    url_args.query_params, url_args.extattrs,
                                    url_args.force_proxy)
    /\ UNCHANGED <<config, payload, pc, call, query_params, aliased, requests,
                   responses, outcome, url_args>>

NextURL == BuildURL

SpecURL == InitURL /\ [][NextURL]_vars

(***************************************************************************)
(* Vocabulary of the properties                                            *)
(***************************************************************************)
Done == pc = "done"

Last == responses[Len(responses)]

IsResponse(r) == r.exc = ""

Decodes(r) == ~loads(r.content).raised

Decoded(r) == loads(r.content).value

SuccessStatuses(op) ==
    CASE op = "create" -> {CREATED}
      [] op = "call"   -> {OK, CREATED}
      [] OTHER         -> {OK}

TypedError(op) ==
    CASE op = "get"    -> "InfobloxSearchError"
      [] op = "call"   -> "InfobloxFuncException"
      [] op = "update" -> "InfobloxCannotUpdateObject"
      [] op = "delete" -> "InfobloxCannotDeleteObject"
      [] OTHER         -> "InfobloxCannotCreateObject"

HasHint(req) == <<"_proxy_search", <<"GM">>>> \in Range(req.params)

ValidPath(path) == path # <<>> /\ path[1] # "/"

\* The first GET came back 200 with a body that decodes to a falsy value.
EmptySuccess(r) ==
    IsResponse(r) /\ r.status_code = OK /\ Decodes(r) /\ ~Truthy(Decoded(r))

RetryCase ==
    /\ Len(responses) >= 1
    /\ EmptySuccess(responses[1])
    /\ cloud_api_enabled
    /\ ~call.force_proxy

(***************************************************************************)
(* C1                                                                      *)
(***************************************************************************)
\* C1 as stated: every finished get call has issued two GETs exactly in the
\* retry case (empty success, cloud-capable, forceProxy false), the second one
\* with the proxy hint, and exactly one GET in every other case.
C1_EveryGetCall ==
    (Done /\ call.op = "get") =>
        /\ Len(requests) <= 2
        /\ (Len(requests) = 2 <=> RetryCase)
        /\ (Len(requests) = 2 => HasHint(requests[2]))
        /\ (~RetryCase => Len(requests) = 1)

\* C1 amended: the same for every get call whose object type passes validation
\* (non-empty, not starting with '/'); a call that fails validation issues no
\* GET at all.
C1_ValidGetCall ==
    (Done /\ call.op = "get") =>
        /\ Len(requests) <= 2
        /\ (Len(requests) = 2 <=> RetryCase)
        /\ (Len(requests) = 2 => HasHint(requests[2]))
        /\ (ValidPath(call.obj_type) /\ ~RetryCase => Len(requests) = 1)
        /\ (~ValidPath(call.obj_type) => Len(requests) = 0)

C1_Witness ==
    /\ Done
    /\ call.op = "get"
    /\ Len(requests) = 2
    /\ HasHint(requests[2])
    /\ ~HasHint(requests[1])

(***************************************************************************)
(* C2                                                                      *)
(***************************************************************************)
\* C2: the first request of a get call carries _proxy_search=GM if and only if
\* the configuration is cloud-capable and forceProxy is true, whatever calls
\* came before on the same payload mapping.
C2_FirstRequestHint ==
    (call.op = "get" /\ Len(requests) >= 1) =>
        (HasHint(requests[1]) <=> (cloud_api_enabled /\ call.force_proxy))

(***************************************************************************)
(* C3                                                                      *)
(***************************************************************************)
\* C3: a 401 response ends the operation with InfobloxBadWAPICredential,
\* whatever the operation, the body, and (for get) the attempt it answers.
C3_Unauthorized ==
    \A i \in DOMAIN responses :
        (IsResponse(responses[i]) /\ responses[i].status_code = UNAUTHORIZED) =>
            /\ i = Len(responses)
            /\ Done
            /\ outcome.kind = "raise"
            /\ outcome.exc = "InfobloxBadWAPICredential"

C3_Witness ==
    /\ Done
    /\ call.op = "get"
    /\ Len(responses) = 2
    /\ IsResponse(responses[2])
    /\ responses[2].status_code = UNAUTHORIZED
    /\ responses[2].content = "[]"

(***************************************************************************)
(* C4                                                                      *)
(***************************************************************************)
\* C4: for get, call, update and delete, a response whose status is neither
\* 401 nor a success status of the operation raises the operation's typed
\* error with the reference, the raw content and the status code, for every
\* body, JSON or not.
C4_TypedError ==
    ( /\ Done
      /\ call.op \in {"get", "call", "update", "delete"}
      /\ Len(responses) >= 1
      /\ IsResponse(Last)
      /\ Last.status_code \notin SuccessStatuses(call.op) \cup {UNAUTHORIZED} ) =>
        /\ outcome.kind = "raise"
        /\ outcome.exc = TypedError(call.op)
        /\ outcome.ref = call.obj_type
        /\ outcome.content = Last.content
        /\ outcome.code = Last.status_code

(***************************************************************************)
(* C5                                                                      *)
(***************************************************************************)
\* C5: a create answered with a status that is neither 201 nor 401 raises
\* InfobloxMemberAlreadyAssigned when the decoded body has a 'text' containing
\* "is assigned to another network view", and InfobloxCannotCreateObject for
\* any other body.
C5_CreateRejected ==
    ( /\ Done
      /\ call.op = "create"
      /\ Len(responses) = 1
      /\ IsResponse(Last)
      /\ Last.status_code \notin {CREATED, UNAUTHORIZED} ) =>
        /\ outcome.kind = "raise"
        /\ outcome.exc =
             IF /\ Decodes(Last)
                /\ Decoded(Last).has_text
                /\ already_assigned \in Range(Decoded(Last).text)
             THEN "InfobloxMemberAlreadyAssigned"
             ELSE "InfobloxCannotCreateObject"

C7_UnparseableSuccess ==
    /\ ( /\ Done
         /\ Len(responses) >= 1
         /\ IsResponse(Last)
         /\ Last.status_code \in SuccessStatuses(call.op)
         /\ ~Decodes(Last) ) =>
            /\ outcome.kind = "raise"
            /\ outcome.exc = "InfobloxConnectionError"
            /\ outcome.content = Last.content
    /\ ( /\ call.op = "get"
         /\ Len(responses) >= 1
         /\ IsResponse(responses[1])
         /\ responses[1].status_code = OK
         /\ ~Decodes(responses[1]) ) =>
            (Done /\ Len(requests) = 1 /\ Len(responses) = 1)

C7_Witness ==
    /\ Done
    /\ call.op = "get"
    /\ cloud_api_enabled
    /\ ~call.force_proxy
    /\ Len(responses) = 1
    /\ IsResponse(Last)
    /\ Last.status_code = OK
    /\ ~Decodes(Last)

(***************************************************************************)
(* C8                                                                      *)
(***************************************************************************)
\* C8: an exception of the transport reaches the caller as
\* InfobloxTimeoutError when it is a timeout and as InfobloxConnectionError
\* otherwise, in every operation and attempt; never as itself.
C8_TransportFailure ==
    /\ outcome.exc \notin RequestExceptions
    /\ (Done /\ Len(responses) >= 1 /\ ~IsResponse(Last)) =>
          /\ outcome.kind = "raise"
          /\ outcome.exc = IF Last.exc \in {"ReadTimeout", "ConnectTimeout"}
                           THEN "InfobloxTimeoutError"
                           ELSE "InfobloxConnectionError"

C8_Witness ==
    /\ Done
    /\ call.op = "get"
    /\ Len(responses) = 2
    /\ Last.exc = "ConnectTimeout"
    /\ outcome.exc = "InfobloxTimeoutError"

(***************************************************************************)
(* C9 (under SpecURL)                                                      *)
(***************************************************************************)
Built == url_result # NotBuilt

ExpectedParams ==
    IF url_args.force_proxy
    THEN SetItem(url_args.query_params, "_proxy_search", <<"GM">>)
    ELSE url_args.query_params

ExtAttrSegment ==
    JoinStr([i \in DOMAIN url_args.extattrs |->
                "*" \o url_args.extattrs[i][1] \o "="
                    \o Str(url_args.extattrs[i][2].value)], "&")

ExpectedQuery ==
    IF url_args.extattrs = <<>> /\ ExpectedParams = <<>> THEN ""
    ELSE "?" \o ExtAttrSegment
             \o (IF url_args.extattrs # <<>> /\ ExpectedParams # <<>>
                 THEN "&" ELSE "")
             \o urlencode(ExpectedParams)

\* No '.' or '..' segment, and no empty segment before the last one.
PlainPath(path) ==
    \A i \in DOMAIN split(path, "/") :
        /\ split(path, "/")[i] \notin {<<".">>, <<".", ".">>}
        /\ (i < Len(split(path, "/")) => split(path, "/")[i] # <<>>)

\* C9 as stated: _construct_url raises ValueError exactly for an empty path or
\* one starting with '/', and for every other path returns
\* wapi_url + quote(path) + query, extattrs before the ordinary parameters.
C9_EveryPath ==
    Built =>
        /\ (url_result.raised = "ValueError" <=> ~ValidPath(url_args.relative_path))
        /\ (url_result.raised = "" =>
               url_result.url = Str(wapi_url)
                                \o Str(quote(url_args.relative_path))
                                \o ExpectedQuery)

\* C9 amended: the same, the URL being wapi_url + quote(path) + query for
\* every valid path that has no '.' or '..' segment and no empty segment
\* before its last one (urljoin resolves and removes those).
C9_PlainPath ==
    Built =>
        /\ (url_result.raised = "ValueError" <=> ~ValidPath(url_args.relative_path))
        /\ (url_result.raised = "" /\ PlainPath(url_args.relative_path) =>
               url_result.url = Str(wapi_url)
                                \o Str(quote(url_args.relative_path))
                                \o ExpectedQuery)

C9_Witness ==
    /\ Built
    /\ url_result.raised = ""
    /\ url_args.relative_path = <<"a", " ", "/", "a">>
    /\ Len(url_args.extattrs) = 2
    /\ url_args.query_params # <<>>
    /\ url_args.force_proxy

(***************************************************************************)
(* C10                                                                     *)
(***************************************************************************)
\* C10: a get call leaves the payload mapping it was given with exactly the
\* items it had when the call began.
C10_PayloadUntouched ==
    (Done /\ call.op = "get" /\ call.payload_in # <<>>) =>
        payload = call.payload_in

====
